---------------------------- MODULE Spec2Model ----------------------------
(***************************************************************************)
(* A model of the kupon client library (src/src/client.rs and              *)
(* src/src/types.rs): the Builder and the Client it builds, the            *)
(* MatchOptions builder and its compilation to a URL (to_url), the retry   *)
(* loop of Client::matches, Client::health, and the textual encoding of    *)
(* AssetId.                                                                *)
(*                                                                         *)
(* Text is modelled as a sequence of one-character strings, so that        *)
(* formatting, splitting and concatenation are computed, not assumed.      *)
(* Rust's Option<T> is the record None or Some(v).                         *)
(***************************************************************************)
EXTENDS Integers, Sequences, FiniteSets, TLC

VARIABLES
    builder,    \* the Builder being configured: [endpoint, retries]
    client,     \* None, or Some of the built Client: [endpoint, retries]
    options,    \* the caller's MatchOptions value
    pc,         \* where the current operation stands
    retries,    \* matches(): the local `retries`
    delay,      \* matches(): the local `delay`, in milliseconds
    match_url,  \* matches(): the outcome of the last to_url
    response,   \* the response an operation received last, or None
    served,     \* history: status and body shape of this call's responses
    trace,      \* history: what this call did ("compile", "request", "sleep")
    result,     \* what the operation returned, or None while it runs
    asset_id,   \* the AssetId under conversion
    hex,        \* the text to_hex made of asset_id, or None
    decoded     \* the AssetId from_hex made of hex, or None

vars == <<builder, client, options, pc, retries, delay, match_url, response,
          served, trace, result, asset_id, hex, decoded>>

---------------------------------------------------------------------------
(* Bounds of the model.                                                    *)

\* The largest retry count a Builder is given.
MaxRetries == 2

\* The longest policy id and asset name of the AssetId round trip.
MaxHexLen == 2

---------------------------------------------------------------------------
(* Option<T> and text.                                                     *)

None == [some |-> FALSE]

Some(v) == [some |-> TRUE, val |-> v]

IsSome(o) == o.some

IsNone(o) == ~o.some

\* Option::or
OptionOr(a, b) == IF IsSome(a) THEN a ELSE b

DigitChars == <<"0", "1", "2", "3", "4", "5", "6", "7", "8", "9">>

\* u64::to_string, and {} of an integer in format!
RECURSIVE U64ToString(_)
U64ToString(n) ==
    IF n < 10 THEN <<DigitChars[n + 1]>>
    ELSE U64ToString(n \div 10) \o <<DigitChars[(n % 10) + 1]>>

\* The index of the first c in s, or 0 when s holds none.
RECURSIVE FindFrom(_, _, _)
FindFrom(s, c, i) ==
    IF i > Len(s) THEN 0
    ELSE IF s[i] = c THEN i
    ELSE FindFrom(s, c, i + 1)

\* str::split_once(c): Some(<<before, after>>) around the first c, or None.
SplitOnce(s, c) ==
    LET i == FindFrom(s, c, 1)
    IN  IF i = 0 THEN None
        ELSE Some(<<SubSeq(s, 1, i - 1), SubSeq(s, i + 1, Len(s))>>)

S_matches == <<"m", "a", "t", "c", "h", "e", "s">>

K_transaction_id == <<"t", "r", "a", "n", "s", "a", "c", "t", "i", "o", "n", "_", "i", "d">>

K_output_index == <<"o", "u", "t", "p", "u", "t", "_", "i", "n", "d", "e", "x">>

K_policy_id == <<"p", "o", "l", "i", "c", "y", "_", "i", "d">>

K_asset_name == <<"a", "s", "s", "e", "t", "_", "n", "a", "m", "e">>

K_spent == <<"s", "p", "e", "n", "t">>

K_unspent == <<"u", "n", "s", "p", "e", "n", "t">>

---------------------------------------------------------------------------
(* Results and errors (src/src/errors.rs).  Messages and hints are never   *)
(* taken apart by the library, so they are plain strings.                  *)

Ok(v) == [ok |-> TRUE, val |-> v]

Err(e) == [ok |-> FALSE, err |-> e]

InvalidQuery(msg) == [kind |-> "InvalidQuery", msg |-> msg]

KupoError(hint) == [kind |-> "KupoError", msg |-> hint]

RequestFailed == [kind |-> "RequestFailed", msg |-> ""]

\* The Display of a KuponError, as the #[error(...)] attributes give it.
ErrorToString(e) ==
    CASE e.kind = "InvalidQuery" -> "invalid query: " \o e.msg
      [] e.kind = "InvalidUrl" -> "invalid url"
      [] e.kind = "KupoError" -> "error from kupo: " \o e.msg
      [] e.kind = "RequestFailed" -> "request failed"

---------------------------------------------------------------------------
(* MatchOptions and its builder methods.                                   *)

DEFAULT_ENDPOINT == "http://localhost:1442"

\* MatchOptions::default()
DefaultOptions ==
    [spent_status |-> None, address |-> None, credential |-> None,
     asset |-> None, transaction |-> None]

OnlySpent(self) == [self EXCEPT !.spent_status = Some("Spent")]

OnlyUnspent(self) == [self EXCEPT !.spent_status = Some("Unspent")]

WithAddress(self, address) == [self EXCEPT !.address = Some(address)]

WithCredential(self, credential) == [self EXCEPT !.credential = Some(credential)]

WithPolicyId(self, policy_id) ==
    [self EXCEPT !.asset = Some([policy_id |-> policy_id, asset_name |-> None])]

WithAssetId(self, text) ==
    LET split == SplitOnce(text, ".")
        policy_id == IF IsSome(split) THEN split.val[1] ELSE text
        asset_name == IF IsSome(split) THEN Some(split.val[2]) ELSE None
    IN  [self EXCEPT !.asset = Some([policy_id |-> policy_id, asset_name |-> asset_name])]

WithTransaction(self, transaction_id) ==
    [self EXCEPT !.transaction =
        Some([transaction_id |-> transaction_id, output_index |-> None])]

WithTransactionOutput(self, transaction_id, index) ==
    [self EXCEPT !.transaction =
        Some([transaction_id |-> transaction_id, output_index |-> Some(index)])]

\* AssetIdOptions::to_pattern without the wildcard for a missing asset name.
AssetToPattern_Bare(asset) ==
    IF IsSome(asset.asset_name)
    THEN asset.policy_id \o <<".">> \o asset.asset_name.val
    ELSE asset.policy_id

\* AssetIdOptions::to_pattern
AssetToPattern(asset) ==
    IF IsSome(asset.asset_name)
    THEN asset.policy_id \o <<".">> \o asset.asset_name.val
    ELSE asset.policy_id \o <<".", "*">>

\* TransactionIdOptions::to_pattern
TransactionToPattern(transaction) ==
    IF IsSome(transaction.output_index)
    THEN U64ToString(transaction.output_index.val) \o <<"@">> \o transaction.transaction_id
    ELSE <<"*", "@">> \o transaction.transaction_id

---------------------------------------------------------------------------
(* The url crate, as far as to_url uses it.  A Url is its base (scheme,    *)
(* host and port), its path and its query: None, or the pairs appended.    *)

\* Url::parse of an endpoint: the base with the root path and no query.
UrlParse(endpoint) == [base |-> endpoint, path |-> <<"/">>, query |-> None]

\* Characters Url::set_path percent-encodes in the path of an http URL
\* (the printable ones, less the two quote characters).
PathEncodeSet == {" ", "#", "<", ">", "?", "{", "}"}

\* %XX of a character, for the characters the model meets.
PercentEncoded(c) ==
    CASE c = " " -> <<"%", "2", "0">>
      [] c = "#" -> <<"%", "2", "3">>
      [] c = "/" -> <<"%", "2", "F">>
      [] c = "<" -> <<"%", "3", "C">>
      [] c = ">" -> <<"%", "3", "E">>
      [] c = "?" -> <<"%", "3", "F">>
      [] c = "@" -> <<"%", "4", "0">>
      [] c = "{" -> <<"%", "7", "B">>
      [] c = "}" -> <<"%", "7", "D">>

RECURSIVE EncodePath(_)
EncodePath(s) ==
    IF s = <<>> THEN <<>>
    ELSE (IF Head(s) \in PathEncodeSet THEN PercentEncoded(Head(s)) ELSE <<Head(s)>>)
         \o EncodePath(Tail(s))

\* The characters form_urlencoded::byte_serialize writes as they are.
FormPlain ==
    {"0", "1", "2", "3", "4", "5", "6", "7", "8", "9",
     "a", "b", "c", "d", "e", "f", "g", "h", "i", "j", "k", "l", "m",
     "n", "o", "p", "q", "r", "s", "t", "u", "v", "w", "x", "y", "z",
     "A", "B", "C", "D", "E", "F", "G", "H", "I", "J", "K", "L", "M",
     "N", "O", "P", "Q", "R", "S", "T", "U", "V", "W", "X", "Y", "Z",
     "*", "-", ".", "_"}

RECURSIVE EncodeForm(_)
EncodeForm(s) ==
    IF s = <<>> THEN <<>>
    ELSE (IF Head(s) \in FormPlain THEN <<Head(s)>>
          ELSE IF Head(s) = " " THEN <<"+">>
          ELSE PercentEncoded(Head(s)))
         \o EncodeForm(Tail(s))

\* Url::set_path: the path is replaced; it always starts with "/".
SetPath(url, path) == [url EXCEPT !.path = <<"/">> \o EncodePath(path)]

\* Url::query_pairs_mut: a Url without a query gets an empty one.
QueryPairsMut(url) == IF IsSome(url.query) THEN url.query.val ELSE <<>>

\* Serializer::append_pair
AppendPair(query, key, value) == Append(query, [key |-> key, value |-> Some(value)])

\* Serializer::append_key_only
AppendKeyOnly(query, key) == Append(query, [key |-> key, value |-> None])

\* The query as text: pairs key=value and bare keys, joined by "&".
RECURSIVE QueryText(_)
QueryText(query) ==
    IF query = <<>> THEN <<>>
    ELSE LET p == Head(query)
             one == IF IsSome(p.value)
                    THEN EncodeForm(p.key) \o <<"=">> \o EncodeForm(p.value.val)
                    ELSE EncodeForm(p.key)
         IN  IF Tail(query) = <<>> THEN one
             ELSE one \o <<"&">> \o QueryText(Tail(query))

\* The path and query of a Url as text, without the leading "/".
PathAndQuery(url) ==
    Tail(url.path) \o (IF IsSome(url.query) /\ url.query.val # <<>>
                       THEN <<"?">> \o QueryText(url.query.val) ELSE <<>>)

---------------------------------------------------------------------------
(* MatchOptions::to_url, in the parts it is made of.                       *)

\* The transaction filter's part of to_url: pq is <<pattern, query>>.
ToUrlTransaction(self, pq) ==
    IF IsSome(self.transaction)
    THEN LET transaction == self.transaction.val
         IN  IF IsNone(pq[1])
             THEN <<Some(TransactionToPattern(transaction)), pq[2]>>
             ELSE LET q1 == AppendPair(pq[2], K_transaction_id, transaction.transaction_id)
                  IN  <<pq[1],
                        IF IsSome(transaction.output_index)
                        THEN AppendPair(q1, K_output_index,
                                        U64ToString(transaction.output_index.val))
                        ELSE q1>>
    ELSE pq

\* The asset filter's part of to_url, forgetting the query pairs.
ToUrlAsset_Dropped(self, pq) ==
    IF IsSome(self.asset) /\ IsNone(pq[1])
    THEN <<Some(AssetToPattern(self.asset.val)), pq[2]>>
    ELSE pq

\* The asset filter's part of to_url.
ToUrlAsset(self, pq) ==
    IF IsSome(self.asset)
    THEN LET asset == self.asset.val
         IN  IF IsNone(pq[1])
             THEN <<Some(AssetToPattern(asset)), pq[2]>>
             ELSE LET q1 == AppendPair(pq[2], K_policy_id, asset.policy_id)
                  IN  <<pq[1],
                        IF IsSome(asset.asset_name)
                        THEN AppendPair(q1, K_asset_name, asset.asset_name.val)
                        ELSE q1>>
    ELSE pq

\* The spent-status part of to_url.
ToUrlSpent(self, pq) ==
    IF self.spent_status = Some("Spent") THEN <<pq[1], AppendKeyOnly(pq[2], K_spent)>>
    ELSE IF self.spent_status = Some("Unspent")
         THEN <<pq[1], AppendKeyOnly(pq[2], K_unspent)>>
    ELSE pq

\* to_url looking at the asset filter before the transaction filter.
ToUrlParts_AssetFirst(self, url) ==
    LET pq0 == <<OptionOr(self.address, self.credential), QueryPairsMut(url)>>
    IN  ToUrlSpent(self, ToUrlTransaction(self, ToUrlAsset(self, pq0)))

\* The pattern and the query pairs to_url computes, in the order of the code.
ToUrlParts(self, url) ==
    LET pq0 == <<OptionOr(self.address, self.credential), QueryPairsMut(url)>>
    IN  ToUrlSpent(self, ToUrlAsset(self, ToUrlTransaction(self, pq0)))

\* to_url without the check of address against credential.
ToUrl_PicksAddress(self, endpoint) ==
    LET pq == ToUrlParts(self, endpoint)
        url == [endpoint EXCEPT !.query = Some(pq[2])]
    IN  Ok(IF IsSome(pq[1])
           THEN SetPath(url, S_matches \o <<"/">> \o pq[1].val)
           ELSE SetPath(url, S_matches))

\* MatchOptions::to_url
ToUrl(self, endpoint) ==
    IF IsSome(self.address) /\ IsSome(self.credential)
    THEN Err(InvalidQuery("cannot query by both address and credential at once"))
    ELSE LET pq == ToUrlParts(self, endpoint)
             url == [endpoint EXCEPT !.query = Some(pq[2])]
         IN  Ok(IF IsSome(pq[1])
                THEN SetPath(url, S_matches \o <<"/">> \o pq[1].val)
                ELSE SetPath(url, S_matches))

---------------------------------------------------------------------------
(* AssetId (src/src/types.rs).                                             *)

\* AssetId::from_hex
FromHex(text) ==
    LET split == SplitOnce(text, ".")
    IN  IF IsSome(split)
        THEN [policy_id |-> split.val[1], asset_name |-> Some(split.val[2])]
        ELSE [policy_id |-> text, asset_name |-> None]

\* to_hex writing a missing asset name as to_pattern does.
ToHex_Wildcard(self) ==
    IF IsSome(self.asset_name)
    THEN self.policy_id \o <<".">> \o self.asset_name.val
    ELSE self.policy_id \o <<".", "*">>

\* AssetId::to_hex
ToHex(self) ==
    IF IsSome(self.asset_name)
    THEN self.policy_id \o <<".">> \o self.asset_name.val
    ELSE self.policy_id

---------------------------------------------------------------------------
(* What the index server may answer.  A body is known by the shape serde   *)
(* finds in it: the success shape, the failure shape {hint}, or neither    *)
(* (not JSON, or JSON of another shape).                                   *)

Hints == {"", "busy"}

\* Two lists of Match the server may return; a Match is opaque here.
MatchLists == {<<>>, <<"utxo">>}

TransportFailure == [kind |-> "transport"]

HttpResponse(status, body) == [kind |-> "http", status |-> status, body |-> body]

MatchBodies ==
    {[shape |-> "matches", matches |-> m] : m \in MatchLists}
    \cup {[shape |-> "hint", hint |-> h] : h \in Hints}
    \cup {[shape |-> "other"]}

MatchStatuses == {200, 400, 503}

MatchResponses ==
    {TransportFailure} \cup {HttpResponse(s, b) : s \in MatchStatuses, b \in MatchBodies}

HealthBodies ==
    {[shape |-> "info", info |-> "server info"]}
    \cup {[shape |-> "hint", hint |-> h] : h \in Hints}
    \cup {[shape |-> "other"]}

HealthStatuses == {200, 202, 501, 503}

HealthResponses ==
    {TransportFailure} \cup {HttpResponse(s, b) : s \in HealthStatuses, b \in HealthBodies}

---------------------------------------------------------------------------
(* Client::health and Client::try_health                                   *)

Healthy == [tag |-> "Healthy", msg |-> ""]

Syncing == [tag |-> "Syncing", msg |-> ""]

Disconnected == [tag |-> "Disconnected", msg |-> ""]

Error(msg) == [tag |-> "Error", msg |-> msg]

\* response.json::<HealthResponse>()
ParseHealthResponse(body) ==
    CASE body.shape = "info" -> Ok([tag |-> "Success", info |-> body.info])
      [] body.shape = "hint" -> Ok([tag |-> "Failure", hint |-> body.hint])
      [] OTHER -> Err(RequestFailed)

\* The HealthStatus try_health derives from the status code.
StatusOfCode(code) ==
    CASE code = 200 -> Healthy
      [] code = 202 -> Syncing
      [] code = 503 -> Disconnected
      [] OTHER -> Error("Unexpected response code " \o ToString(code))

\* try_health with a ? on the body's parse error.
TryHealth_Strict(resp) ==
    IF resp.kind = "transport" THEN Err(RequestFailed)
    ELSE LET parsed == ParseHealthResponse(resp.body)
         IN  IF ~parsed.ok THEN Err(parsed.err)
             ELSE Ok([status |-> IF parsed.val.tag = "Failure"
                                 THEN Error(parsed.val.hint)
                                 ELSE StatusOfCode(resp.status),
                      info |-> IF parsed.val.tag = "Success"
                               THEN Some(parsed.val.info) ELSE None])

\* Client::try_health
TryHealth(resp) ==
    IF resp.kind = "transport" THEN Err(RequestFailed)
    ELSE LET parsed == ParseHealthResponse(resp.body)
             failure == parsed.ok /\ parsed.val.tag = "Failure"
             success == parsed.ok /\ parsed.val.tag = "Success"
         IN  Ok([status |-> IF failure THEN Error(parsed.val.hint)
                            ELSE StatusOfCode(resp.status),
                 info |-> IF success THEN Some(parsed.val.info) ELSE None])

\* Client::health
Health(resp) ==
    LET r == TryHealth(resp)
    IN  IF r.ok THEN r.val
        ELSE [status |-> Error(ErrorToString(r.err)), info |-> None]

---------------------------------------------------------------------------
(* Client::matches                                                         *)

\* let mut delay = Duration::from_millis(100)
InitialDelayMs == 100

\* thread_rng().gen_range(1.5..2.5), in tenths: the least factor and one
\* near the greatest.
JitterTenths == {15, 24}

\* A parse that takes any other body for a failure without a hint.
ParseMatchResponse_Lenient(body) ==
    CASE body.shape = "matches" -> Ok([tag |-> "Success", matches |-> body.matches])
      [] body.shape = "hint" -> Ok([tag |-> "Failure", hint |-> body.hint])
      [] OTHER -> Ok([tag |-> "Failure", hint |-> ""])

\* response.json::<MatchResponse>()
ParseMatchResponse(body) ==
    CASE body.shape = "matches" -> Ok([tag |-> "Success", matches |-> body.matches])
      [] body.shape = "hint" -> Ok([tag |-> "Failure", hint |-> body.hint])
      [] OTHER -> Err(RequestFailed)

\* The test with the budget off by one.
GivesUp_OffByOne(budget, code) == budget <= 1 \/ code # 503

\* The test without the budget.
GivesUp_StatusOnly(budget, code) == code # 503

\* Whether a failure body ends the call: retries == 0 || status != 503.
GivesUp(budget, code) == budget = 0 \/ code # 503

\* What one turn of the loop does with the answer to its request:
\* Some(r) when it returns r, None when it goes on to sleep and retry.
HandleResponse(budget, resp) ==
    IF resp.kind = "transport" THEN Some(Err(RequestFailed))
    ELSE LET parsed == ParseMatchResponse(resp.body)
         IN  IF ~parsed.ok THEN Some(Err(parsed.err))
             ELSE IF parsed.val.tag = "Success" THEN Some(Ok(parsed.val.matches))
             ELSE IF GivesUp(budget, resp.status)
                  THEN Some(Err(KupoError(parsed.val.hint)))
             ELSE None

\* The loop without the decrement.
NextRetries_Kept(budget) == budget

\* retries -= 1
NextRetries(budget) == budget - 1

\* delay = delay.mul_f32(factor)
NextDelay(d, tenths) == (d * tenths) \div 10

---------------------------------------------------------------------------
(* The values the caller passes in.                                        *)

Endpoints == {"http://kupo:1442"}

Addresses == {<<"X">>}

Credentials == {<<"c", "9">>}

PolicyIds == {<<"a", "b", "c", "d">>}

\* Texts given to MatchOptions::asset_id: with and without an asset name.
AssetIdTexts == {<<"a", "b", "c", "d", ".", "e", "f", "0", "1">>, <<"1", "d">>}

TransactionIds == {<<"7", "f">>}

OutputIndexes == {0, 12}

HexChars == {"a", "1"}

\* An asset name is whatever follows the first "." of a text.
NameChars == HexChars \cup {"."}

\* The texts over chars of length n.
RECURSIVE TextsOfLen(_, _)
TextsOfLen(chars, n) ==
    IF n = 0 THEN {<<>>}
    ELSE {<<c>> \o s : c \in chars, s \in TextsOfLen(chars, n - 1)}

\* The texts over chars of length at most MaxHexLen.
Texts(chars) == UNION {TextsOfLen(chars, n) : n \in 0..MaxHexLen}

\* Policy ids in hexadecimal digits, with or without an asset name.
AssetIds ==
    {[policy_id |-> p, asset_name |-> n] :
        p \in Texts(HexChars), n \in {None} \cup {Some(s) : s \in Texts(NameChars)}}

---------------------------------------------------------------------------
(* The state machine.                                                      *)

\* No AssetId conversion is under way.
NoConversion == asset_id = None /\ hex = None /\ decoded = None

\* No call of matches() is under way.
NoCall ==
    /\ retries = 0
    /\ delay = 0
    /\ match_url = None
    /\ response = None
    /\ served = <<>>
    /\ trace = <<>>
    /\ result = None

Init ==
    /\ builder = [endpoint |-> None, retries |-> 0]
    /\ client = None
    /\ options = DefaultOptions
    /\ pc = "config"
    /\ NoCall
    /\ NoConversion

call_vars == <<retries, delay, match_url, response, served, trace, result>>

asset_vars == <<asset_id, hex, decoded>>

\* Builder::with_endpoint
WithEndpoint(endpoint) ==
    /\ pc = "config"
    /\ builder' = [endpoint |-> Some(endpoint), retries |-> 0]
    /\ UNCHANGED <<client, options, pc, call_vars, asset_vars>>

\* Builder::with_retries
WithRetries(n) ==
    /\ pc = "config"
    /\ builder' = [builder EXCEPT !.retries = n]
    /\ UNCHANGED <<client, options, pc, call_vars, asset_vars>>

\* Builder::build, for an endpoint that parses.
Build ==
    /\ pc = "config"
    /\ client' = Some([endpoint |-> UrlParse(IF IsSome(builder.endpoint)
                                             THEN builder.endpoint.val
                                             ELSE DEFAULT_ENDPOINT),
                       retries |-> builder.retries])
    /\ pc' = "idle"
    /\ UNCHANGED <<builder, options, call_vars, asset_vars>>

\* The caller refines its MatchOptions between calls.
Refine(new) ==
    /\ pc = "idle"
    /\ options' = new
    /\ UNCHANGED <<builder, client, pc, call_vars, asset_vars>>

only_spent == Refine(OnlySpent(options))

only_unspent == Refine(OnlyUnspent(options))

address == \E a \in Addresses : Refine(WithAddress(options, a))

credential == \E c \in Credentials : Refine(WithCredential(options, c))

policy_id == \E p \in PolicyIds : Refine(WithPolicyId(options, p))

asset_id_text == \E t \in AssetIdTexts : Refine(WithAssetId(options, t))

transaction == \E t \in TransactionIds : Refine(WithTransaction(options, t))

transaction_output ==
    \E t \in TransactionIds, i \in OutputIndexes :
        Refine(WithTransactionOutput(options, t, i))

\* Client::health: the request, the answer and the Health returned.
HealthCall ==
    /\ pc = "idle"
    /\ \E resp \in HealthResponses :
        /\ response' = Some(resp)
        /\ result' = Some([op |-> "health", ret |-> Health(resp)])
    /\ pc' = "done"
    /\ UNCHANGED <<builder, client, options, retries, delay, match_url, served,
                   trace, asset_vars>>

\* Client::matches is entered: the locals before the loop.
MatchesBegin ==
    /\ pc = "idle"
    /\ retries' = client.val.retries
    /\ delay' = InitialDelayMs
    /\ pc' = "loop"
    /\ UNCHANGED <<builder, client, options, match_url, response, served, trace,
                   result, asset_vars>>

\* The head of the loop: to_url, then the request is sent, or the ? returns.
MatchesSend ==
    /\ pc = "loop"
    /\ LET url == ToUrl(options, client.val.endpoint)
       IN  /\ match_url' = Some(url)
           /\ IF url.ok
              THEN /\ trace' = trace \o <<"compile", "request">>
                   /\ pc' = "awaiting"
                   /\ result' = result
              ELSE /\ trace' = Append(trace, "compile")
                   /\ pc' = "done"
                   /\ result' = Some([op |-> "matches", ret |-> Err(url.err)])
    /\ UNCHANGED <<builder, client, options, retries, delay, response, served,
                   asset_vars>>

\* The answer arrives: the call returns, or starts to sleep.
MatchesReceive ==
    /\ pc = "awaiting"
    /\ \E resp \in MatchResponses :
        LET out == HandleResponse(retries, resp)
        IN  /\ response' = Some(resp)
            /\ served' = Append(served,
                    IF resp.kind = "transport" THEN [status |-> 0, shape |-> "transport"]
                    ELSE [status |-> resp.status, shape |-> resp.body.shape])
            /\ IF IsSome(out)
               THEN /\ result' = Some([op |-> "matches", ret |-> out.val])
                    /\ pc' = "done"
                    /\ trace' = trace
               ELSE /\ result' = result
                    /\ pc' = "sleeping"
                    /\ trace' = Append(trace, "sleep")
    /\ UNCHANGED <<builder, client, options, retries, delay, match_url, asset_vars>>

\* The sleep ends: the budget and the delay are updated, the loop goes round.
MatchesWake ==
    /\ pc = "sleeping"
    /\ retries' = NextRetries(retries)
    /\ \E f \in JitterTenths : delay' = NextDelay(delay, f)
    /\ pc' = "loop"
    /\ UNCHANGED <<builder, client, options, match_url, response, served, trace,
                   result, asset_vars>>

\* The caller takes the returned value; the call's locals are gone.
Return ==
    /\ pc = "done"
    /\ pc' = "idle"
    /\ retries' = 0
    /\ delay' = 0
    /\ match_url' = None
    /\ response' = None
    /\ served' = <<>>
    /\ trace' = <<>>
    /\ result' = None
    /\ UNCHANGED <<builder, client, options, asset_vars>>

Next ==
    \/ \E e \in Endpoints : WithEndpoint(e)
    \/ \E n \in 0..MaxRetries : WithRetries(n)
    \/ Build
    \/ only_spent
    \/ only_unspent
    \/ address
    \/ credential
    \/ policy_id
    \/ asset_id_text
    \/ transaction
    \/ transaction_output
    \/ HealthCall
    \/ MatchesBegin
    \/ MatchesSend
    \/ MatchesReceive
    \/ MatchesWake
    \/ Return

Spec == Init /\ [][Next]_vars

\* Every call that can take a step takes it: the runtime polls the future,
\* the server or the transport answers, the timer fires.
FairSpec ==
    Spec /\ WF_vars(MatchesSend) /\ WF_vars(MatchesReceive) /\ WF_vars(MatchesWake)

---------------------------------------------------------------------------
(* AssetId to text and back.                                               *)

AssetInit ==
    /\ builder = [endpoint |-> None, retries |-> 0]
    /\ client = None
    /\ options = DefaultOptions
    /\ pc = "config"
    /\ NoCall
    /\ asset_id \in {Some(id) : id \in AssetIds}
    /\ hex = None
    /\ decoded = None

\* asset_id.to_hex()
AssetToHex ==
    /\ hex = None
    /\ hex' = Some(ToHex(asset_id.val))
    /\ UNCHANGED <<builder, client, options, pc, call_vars, asset_id, decoded>>

\* AssetId::from_hex(hex)
AssetFromHex ==
    /\ IsSome(hex)
    /\ decoded = None
    /\ decoded' = Some(FromHex(hex.val))
    /\ UNCHANGED <<builder, client, options, pc, call_vars, asset_id, hex>>

AssetNext == AssetToHex \/ AssetFromHex

AssetSpec == AssetInit /\ [][AssetNext]_vars

---------------------------------------------------------------------------
(* Vocabulary of the properties.                                           *)

\* The retry count the Client was configured with.
ConfiguredRetries == client.val.retries

\* matches() has returned and the caller has not yet taken the value.
MatchesReturned == pc = "done" /\ IsSome(result) /\ result.val.op = "matches"

\* health() has returned.
HealthReturned == pc = "done" /\ IsSome(result) /\ result.val.op = "health"

\* A call of matches() is under way or has just returned.
InMatches == pc \in {"loop", "awaiting", "sleeping"} \/ MatchesReturned

\* An answer with HTTP 503 and a failure body.
Is503Failure(e) == e.status = 503 /\ e.shape = "hint"

\* How often ev occurs in trace between positions i and j.
CountIn(ev, i, j) == Cardinality({k \in i..j : trace[k] = ev})

Requests == CountIn("request", 1, Len(trace))

Sleeps == CountIn("sleep", 1, Len(trace))

\* The URL the call compiled last, when to_url succeeded.
Compiled == IsSome(match_url) /\ match_url.val.ok

CompiledPath == match_url.val.val.path

CompiledQuery == match_url.val.val.query.val

MatchesSlash == <<"/", "m", "a", "t", "c", "h", "e", "s", "/">>

KeyCount(key) ==
    Cardinality({i \in DOMAIN CompiledQuery : CompiledQuery[i].key = key})

HasPair(key, value) ==
    \E i \in DOMAIN CompiledQuery : CompiledQuery[i] = [key |-> key, value |-> Some(value)]

---------------------------------------------------------------------------
(* C1.  When the server answers the first N requests of one matches() call *)
(* with HTTP 503 and a failure body and the next with a success body, the  *)
(* call returns that success if the configured retry count R is at least   *)
(* N, and the server-reported error if R < N.  Seen from a returned call:  *)
(* success after N such failures was returned only with N <= R, and it is  *)
(* the matches of the last answer; a call that saw only such failures      *)
(* returned after exactly R + 1 of them, with KupoError of the last hint.  *)

C1_RetriesThenSuccess ==
    MatchesReturned /\ served # <<>> =>
        LET n == Len(served)
            failuresBefore == \A i \in 1..(n - 1) : Is503Failure(served[i])
        IN  /\ (failuresBefore /\ served[n].shape = "matches") =>
                /\ n - 1 <= ConfiguredRetries
                /\ result.val.ret = Ok(response.val.body.matches)
            /\ (failuresBefore /\ Is503Failure(served[n])) =>
                /\ n = ConfiguredRetries + 1
                /\ result.val.ret = Err(KupoError(response.val.body.hint))

\* Two 503 failures, then success, with retries >= 2.
C1_Witness ==
    /\ MatchesReturned
    /\ Len(served) = 3
    /\ Is503Failure(served[1]) /\ Is503Failure(served[2])
    /\ result.val.ret.ok
    /\ result.val.ret.val # <<>>

---------------------------------------------------------------------------
(* C2.  A failure body with a status other than 503, or with no retry      *)
(* budget left, ends the call in that attempt with KupoError of that       *)
(* response's hint, without a sleep or another request; the call sleeps    *)
(* and retries only on 503 with a failure body and budget left, and the    *)
(* retry takes exactly 1 from the budget.                                  *)

C2_Step ==
    /\ (pc = "awaiting" /\ pc' # "awaiting") =>
        LET resp == response'.val
            failure == resp.kind = "http" /\ resp.body.shape = "hint"
        IN  /\ (failure /\ (resp.status # 503 \/ retries = 0)) =>
                /\ pc' = "done"
                /\ result' = Some([op |-> "matches",
                                   ret |-> Err(KupoError(resp.body.hint))])
                /\ trace' = trace
            /\ (pc' = "sleeping") =>
                /\ failure /\ resp.status = 503 /\ retries > 0
                /\ trace' = Append(trace, "sleep")
            /\ pc' \in {"done", "sleeping"}
    /\ (pc = "sleeping" /\ pc' # "sleeping") =>
        /\ pc' = "loop"
        /\ retries' = retries - 1
        /\ trace' = trace
    /\ (pc = "done" /\ pc' # "done") => pc' = "idle"

C2_FailureEndsOrRetries == [][C2_Step]_vars

\* A 503 failure with the budget used up, after one retry.
C2_Witness ==
    /\ MatchesReturned
    /\ Len(served) = 2
    /\ response.val.kind = "http" /\ response.val.status = 503
    /\ response.val.body.shape = "hint" /\ response.val.body.hint = "busy"
    /\ retries = 0
    /\ result.val.ret = Err(KupoError("busy"))

---------------------------------------------------------------------------
(* C3.  A transport failure, or a body that is neither the success nor the *)
(* failure shape, ends matches() at once with RequestFailed, whatever the  *)
(* status and the budget left; it is never retried and never reported as a *)
(* server-reported error.                                                  *)

C3_RequestFailedNotRetried ==
    (InMatches /\ IsSome(response)
        /\ (response.val.kind = "transport" \/ response.val.body.shape = "other")) =>
        /\ pc = "done"
        /\ result.val.ret = Err(RequestFailed)
        /\ trace[Len(trace)] = "request"

\* An unparsable body under status 503 with budget left.
C3_Witness ==
    /\ MatchesReturned
    /\ response.val.kind = "http" /\ response.val.status = 503
    /\ response.val.body.shape = "other"
    /\ retries > 0
    /\ result.val.ret = Err(RequestFailed)

---------------------------------------------------------------------------
(* C4.  As claimed: health() returns a Health whose status is Error with a *)
(* non-empty message after a transport failure, after a body that is not   *)
(* JSON, and after status 501.                                             *)

---------------------------------------------------------------------------
(* C5.  With both address and credential set, whatever else is set and in  *)
(* whatever order the options were built, to_url fails with InvalidQuery   *)
(* and picks neither; matches() returns that InvalidQuery before any       *)
(* request or sleep, for every retry budget.                               *)

BothSet == IsSome(options.address) /\ IsSome(options.credential)

C5_BothIsInvalidQuery ==
    (BothSet /\ InMatches) =>
        /\ pc \in {"loop", "done"}
        /\ served = <<>>
        /\ Requests = 0 /\ Sleeps = 0
        /\ IsSome(match_url) =>
            /\ ~match_url.val.ok
            /\ match_url.val.err.kind = "InvalidQuery"
        /\ pc = "done" =>
            /\ IsSome(match_url)
            /\ ~result.val.ret.ok
            /\ result.val.ret.err.kind = "InvalidQuery"

\* Every dimension set, a retry budget, and the call has returned.
C5_Witness ==
    /\ BothSet /\ MatchesReturned
    /\ IsSome(options.asset) /\ IsSome(options.transaction)
    /\ IsSome(options.spent_status)
    /\ ConfiguredRetries > 0
    /\ result.val.ret.err.kind = "InvalidQuery"

---------------------------------------------------------------------------
(* The textual forms, written out.                                         *)

\* The decimal text of the output indexes of the model.
IndexText(i) == IF i = 0 THEN <<"0">> ELSE IF i = 12 THEN <<"1", "2">> ELSE <<>>

\* output_index@transaction_id, or *@transaction_id.
TransactionText(t) ==
    IF IsSome(t.output_index)
    THEN IndexText(t.output_index.val) \o <<"@">> \o t.transaction_id
    ELSE <<"*", "@">> \o t.transaction_id

\* policy_id.asset_name, or policy_id followed by bare.
AssetText(a, bare) ==
    IF IsSome(a.asset_name) THEN a.policy_id \o <<".">> \o a.asset_name.val
    ELSE a.policy_id \o bare

---------------------------------------------------------------------------
(* C6.  As claimed: the path pattern is the first present of address,      *)
(* credential, asset, transaction; bare `matches` when none is.            *)

C6_Original ==
    Compiled =>
        CompiledPath =
            IF IsSome(options.address) THEN MatchesSlash \o options.address.val
            ELSE IF IsSome(options.credential) THEN MatchesSlash \o options.credential.val
            ELSE IF IsSome(options.asset)
                 THEN MatchesSlash \o AssetText(options.asset.val, <<".", "*">>)
            ELSE IF IsSome(options.transaction)
                 THEN MatchesSlash \o TransactionText(options.transaction.val)
            ELSE <<"/">> \o S_matches

(* C6, amended.  The path pattern is the first present of address,         *)
(* credential, transaction, asset: with neither address nor credential and *)
(* both a transaction and an asset filter, the pattern is the              *)
(* transaction's and the asset is sent as query pairs; with none of the    *)
(* four the path is bare `matches`.                                        *)

C6_PatternPriority ==
    Compiled =>
        /\ CompiledPath =
            IF IsSome(options.address) THEN MatchesSlash \o options.address.val
            ELSE IF IsSome(options.credential) THEN MatchesSlash \o options.credential.val
            ELSE IF IsSome(options.transaction)
                 THEN MatchesSlash \o TransactionText(options.transaction.val)
            ELSE IF IsSome(options.asset)
                 THEN MatchesSlash \o AssetText(options.asset.val, <<".", "*">>)
            ELSE <<"/">> \o S_matches
        /\ (IsNone(options.address) /\ IsNone(options.credential)
                /\ IsSome(options.transaction) /\ IsSome(options.asset)) =>
            /\ HasPair(K_policy_id, options.asset.val.policy_id)
            /\ KeyCount(K_transaction_id) = 0

\* An asset and a transaction filter, no address and no credential.
C6_Witness ==
    /\ Compiled
    /\ IsNone(options.address) /\ IsNone(options.credential)
    /\ IsSome(options.transaction) /\ IsSome(options.asset)
    /\ IsSome(options.asset.val.asset_name)
    /\ IsSome(options.transaction.val.output_index)

---------------------------------------------------------------------------
(* C7.  With exactly one of address, credential, asset, transaction set,   *)
(* the path is matches/<form> and the query holds only the spent-status    *)
(* flag, if any.                                                           *)

ExactlyOne ==
    Cardinality({d \in {"address", "credential", "asset", "transaction"} :
                    IsSome(options[d])}) = 1

OnlySpentFlag ==
    CompiledQuery =
        IF options.spent_status = Some("Spent") THEN <<[key |-> K_spent, value |-> None]>>
        ELSE IF options.spent_status = Some("Unspent")
             THEN <<[key |-> K_unspent, value |-> None]>>
        ELSE <<>>

\* The form of the one dimension set; bare is what follows a policy id
\* that has no asset name.
CanonicalForm(bare) ==
    IF IsSome(options.address) THEN options.address.val
    ELSE IF IsSome(options.credential) THEN options.credential.val
    ELSE IF IsSome(options.asset) THEN AssetText(options.asset.val, bare)
    ELSE TransactionText(options.transaction.val)

\* As claimed: a policy id without an asset name stands alone.
C7_Original ==
    (Compiled /\ ExactlyOne) =>
        /\ CompiledPath = MatchesSlash \o CanonicalForm(<<>>)
        /\ OnlySpentFlag

(* C7, amended: as claimed, except that the form of an asset filter        *)
(* without an asset name is `policy_id.*`, not `policy_id` alone.          *)

C7_SingleDimension ==
    (Compiled /\ ExactlyOne) =>
        /\ CompiledPath = MatchesSlash \o CanonicalForm(<<".", "*">>)
        /\ OnlySpentFlag

\* Only a policy id, and the unspent flag.
C7_Witness ==
    /\ Compiled /\ ExactlyOne
    /\ IsSome(options.asset) /\ IsNone(options.asset.val.asset_name)
    /\ options.spent_status = Some("Unspent")

---------------------------------------------------------------------------
(* C8.  In a compiled URL each asset or transaction filter that is set is  *)
(* in exactly one place: it is the path pattern, or it is in the query as  *)
(* policy_id (and asset_name iff a name is set), transaction_id (and       *)
(* output_index iff an index is set); never in both, never dropped.  Asset *)
(* (abcd, ef01) with address X is matches/X?policy_id=abcd&asset_name=ef01.*)

AssetInPath ==
    CompiledPath = MatchesSlash \o AssetToPattern(options.asset.val)

AssetInQuery ==
    LET a == options.asset.val
    IN  /\ KeyCount(K_policy_id) = 1
        /\ HasPair(K_policy_id, a.policy_id)
        /\ IF IsSome(a.asset_name)
           THEN KeyCount(K_asset_name) = 1 /\ HasPair(K_asset_name, a.asset_name.val)
           ELSE KeyCount(K_asset_name) = 0

AssetNotInQuery == KeyCount(K_policy_id) = 0 /\ KeyCount(K_asset_name) = 0

TransactionInPath ==
    CompiledPath = MatchesSlash \o TransactionToPattern(options.transaction.val)

TransactionInQuery ==
    LET t == options.transaction.val
    IN  /\ KeyCount(K_transaction_id) = 1
        /\ HasPair(K_transaction_id, t.transaction_id)
        /\ IF IsSome(t.output_index)
           THEN /\ KeyCount(K_output_index) = 1
                /\ HasPair(K_output_index, IndexText(t.output_index.val))
           ELSE KeyCount(K_output_index) = 0

TransactionNotInQuery ==
    KeyCount(K_transaction_id) = 0 /\ KeyCount(K_output_index) = 0

\* matches/X?policy_id=abcd&asset_name=ef01
ExampleText ==
    <<"m", "a", "t", "c", "h", "e", "s", "/", "X", "?",
      "p", "o", "l", "i", "c", "y", "_", "i", "d", "=", "a", "b", "c", "d", "&",
      "a", "s", "s", "e", "t", "_", "n", "a", "m", "e", "=", "e", "f", "0", "1">>

IsExample ==
    /\ options.address = Some(<<"X">>)
    /\ options.asset = Some([policy_id |-> <<"a", "b", "c", "d">>,
                             asset_name |-> Some(<<"e", "f", "0", "1">>)])
    /\ IsNone(options.transaction)
    /\ IsNone(options.spent_status)

C8_OnePlacePerFilter ==
    Compiled =>
        /\ IsSome(options.asset) =>
            \/ AssetInPath /\ AssetNotInQuery
            \/ ~AssetInPath /\ AssetInQuery
        /\ IsSome(options.transaction) =>
            \/ TransactionInPath /\ TransactionNotInQuery
            \/ ~TransactionInPath /\ TransactionInQuery
        /\ IsExample => PathAndQuery(match_url.val.val) = ExampleText

\* The example: address X with asset (abcd, ef01).
C8_Witness == Compiled /\ IsExample

---------------------------------------------------------------------------
(* C9.  AssetId::from_hex(id.to_hex()) = id for every policy id written in *)
(* hexadecimal digits and every optional asset name; the text of an id     *)
(* with a name is policy_id.asset_name and decodes to that policy id and   *)
(* Some(asset_name); the text of an id without one is the bare policy id   *)
(* and decodes to that policy id and None.                                 *)

C9_AssetIdRoundTrip ==
    IsSome(decoded) =>
        LET id == asset_id.val
        IN  /\ decoded.val = id
            /\ IsSome(id.asset_name) =>
                /\ hex.val = id.policy_id \o <<".">> \o id.asset_name.val
                /\ decoded.val.policy_id = id.policy_id
                /\ decoded.val.asset_name = Some(id.asset_name.val)
            /\ IsNone(id.asset_name) =>
                /\ hex.val = id.policy_id
                /\ decoded.val.policy_id = id.policy_id
                /\ decoded.val.asset_name = None

\* An id with a policy id and a name has gone to text and back.
C9_Witness ==
    /\ IsSome(decoded)
    /\ IsSome(asset_id.val.asset_name)
    /\ Len(asset_id.val.policy_id) > 0
    /\ Len(asset_id.val.asset_name.val) > 0

---------------------------------------------------------------------------
(* C10.  One matches() call issues at most R + 1 requests and sleeps at    *)
(* most R times, R being the configured retry count; exactly one sleep     *)
(* lies between two consecutive requests; the URL is compiled anew right   *)
(* before each request; the call always comes to return; and the Client's  *)
(* retry count is not changed by a call, so that each call starts with the *)
(* whole budget.                                                           *)

C10_Bounded ==
    InMatches =>
        /\ Requests <= ConfiguredRetries + 1
        /\ Sleeps <= ConfiguredRetries
        /\ retries >= 0
        /\ \A i \in DOMAIN trace :
            trace[i] = "request" => i > 1 /\ trace[i - 1] = "compile"
        /\ \A i, j \in DOMAIN trace :
            (i < j /\ trace[i] = "request" /\ trace[j] = "request"
                /\ CountIn("request", i + 1, j - 1) = 0) =>
                    CountIn("sleep", i, j) = 1

C10_BudgetStep ==
    /\ IsSome(client) => client' = client
    /\ (pc = "idle" /\ pc' = "loop") => retries' = ConfiguredRetries

===========================================================================
